---- MODULE Spec2Model ----
(***************************************************************************)
(* gluetun-qbt-port-updater: the reconciliation loop of main(), with the   *)
(* torrent client (qBittorrent), the gateway (Gluetun) and the shared      *)
(* http.Client with its cookie jar as environment.                         *)
(*                                                                         *)
(* The model follows the revision of updater.go that has waitForConnUp and *)
(* the separate qbtPort / lastPort variables. The earlier revision kept in  *)
(* the repository has no readiness wait and one variable, lastPort, set     *)
(* before handleChangedPort is called and compared without a zero guard.    *)
(*                                                                         *)
(* The program is one goroutine; every blocking network call is one step.  *)
(* The variables marked "history" record what was sent and what came back; *)
(* the modelled code never reads them.                                     *)
(***************************************************************************)
EXTENDS Integers, Sequences, FiniteSets, TLC

VARIABLES
    pc,             \* position of main(): waitQbt, waitGluetun, auth, seed,
                    \* firstFetch, polling, update, exited
    exitCode,       \* -1 while the process runs, else the os.Exit code
    qBittorrentUser,\* QBT_USERNAME, "" when unset
    up,             \* environment: which endpoints accept TCP connections
    jar,            \* client.Jar: the cookie value stored per cookie name, 0 = none
    cookies,        \* main's cookies slice
    qbtPort,        \* main's qbtPort (tracked applied listen port)
    lastPort,       \* main's lastPort (last observed forwarded port)
    port,           \* the tick's port
    nTicks,         \* ticks of the polling ticker consumed so far
    argInterval,    \* command line: seconds given with --interval, 0 = not given
    interval,       \* main's interval, in seconds
    period,         \* period of the polling ticker in seconds, 0 = not created
    srvListenPort,  \* environment: the torrent client's listen_port setting
    external,       \* history: somebody else has changed srvListenPort
    dialFails,      \* history: failed dials of the readiness wait in progress
    connected,      \* history: endpoints a dial reached, in order
    last,           \* history: the last request issued, with its response
    seed,           \* history: the preferences request, with its response
    sent,           \* history: requests issued so far, per kind
    sentAtExit,     \* history: sent when the process exited
    loginCookies,   \* history: the cookies of the successful login response
    seen,           \* history: cookies set by torrent-client responses so far
    run             \* history: the latest consecutive ticks that fetched the
                    \* same value, one record per tick, oldest first

prog == <<pc, exitCode, jar, cookies, qbtPort, lastPort, port, nTicks>>
hist == <<dialFails, connected, last, seed, sent, sentAtExit, loginCookies, seen, run>>
timer == <<argInterval, interval, period>>
vars == <<prog, timer, qBittorrentUser, up, srvListenPort, external, hist>>

---------------------------------------------------------------------------
(* Bounds of the model *)

MaxPort == 2          \* ports are 0..MaxPort
MaxTicks == 3         \* ticks of the polling loop explored
MaxDialFails == 2     \* failed dials explored per readiness wait
MaxInterval == 3      \* --interval values explored, in seconds

(* Program constants *)

UINT16_MAX == 65535   \* portForwardResponse.Port and ListenPort are uint16
StatusOK == 200
DefaultInterval == 1  \* time.Second, the default of the interval flag

Ports == 0..MaxPort
Endpoints == {"qbt", "gluetun"}
Users == {"", "admin"}
CookieNames == {"SID"}
CookieValues == {1, 2}
Cookie(n, v) == [name |-> n, value |-> v]
AllCookies == {Cookie(n, v) : n \in CookieNames, v \in CookieValues}
\* Set-Cookie headers of one response: none, or one cookie
SetCookieLists == {<<>>} \cup {<<c>> : c \in AllCookies}
Statuses == {200, 403, 500}
Kinds == {"login", "prefs", "fetch", "update"}

Range(s) == {s[i] : i \in 1..Len(s)}

---------------------------------------------------------------------------
(* Response bodies and their decoding *)

\* A body is not JSON, JSON without the port field, or JSON with a number in it.
NotJSON == [json |-> FALSE, hasPort |-> FALSE, port |-> 0]
JSONEmpty == [json |-> TRUE, hasPort |-> FALSE, port |-> 0]
JSONPort(p) == [json |-> TRUE, hasPort |-> TRUE, port |-> p]

\* json.Unmarshal into a struct with one uint16 field: a missing field leaves
\* the zero value, a number outside uint16 is an error.
Unmarshal(body) ==
    IF ~body.json THEN [err |-> TRUE, val |-> 0]
    ELSE IF ~body.hasPort THEN [err |-> FALSE, val |-> 0]
    ELSE IF body.port < 0 \/ body.port > UINT16_MAX THEN [err |-> TRUE, val |-> 0]
    ELSE [err |-> FALSE, val |-> body.port]

---------------------------------------------------------------------------
(* The shared http.Client and its cookie jar *)

\* Jar.Cookies(url): the cookies the jar holds, as a list. Cookies are taken
\* to be host cookies of path /, which the jar returns for every request to
\* the torrent client.
JarCookies(j) ==
    IF j["SID"] = 0 THEN <<>> ELSE <<Cookie("SID", j["SID"])>>

\* Jar.SetCookies(url, resp.Cookies()): a cookie replaces the one of its name
RECURSIVE JarSet(_, _)
JarSet(j, cs) ==
    IF cs = <<>> THEN j
    ELSE JarSet([j EXCEPT ![Head(cs).name] = Head(cs).value], Tail(cs))

\* The Cookie header of a request sent with client.Do: the cookies the caller
\* added with req.AddCookie, then those the client adds from its jar.
WireCookies_JarOnly(cs, j) == JarCookies(j)

WireCookies(cs, j) == cs \o JarCookies(j)

---------------------------------------------------------------------------
(* History records *)

\* A request (kind "login", "prefs", "fetch", "update"; "none" before the
\* first) with what was sent (cookies: the caller's cookie list; held: what
\* the jar of the client used held; wire: the Cookie header; port) and what
\* came back (net: "ok", "senderr" = no response, "readerr" = body unreadable).
Ev(kind, sent_, held, wire, p, net, status, body, setCookie, tick) ==
    [kind |-> kind, cookies |-> sent_, held |-> held, wire |-> wire, port |-> p,
     net |-> net, status |-> status, body |-> body, setCookie |-> setCookie,
     tick |-> tick]

NoEv == Ev("none", <<>>, <<>>, <<>>, 0, "ok", 0, NotJSON, <<>>, 0)

\* log.Fatal: os.Exit(1)
Fatal ==
    /\ pc' = "exited"
    /\ exitCode' = 1
    /\ sentAtExit' = sent'

\* *flag.Duration("interval", time.Second, ...): the flag is defined and its
\* value read at once; main never calls flag.Parse, so the value read is the
\* default whatever the command line holds.
FlagDuration(arg) == DefaultInterval

\* The state when main has made the client, for a command line whose
\* --interval argument is in args
Start(args) ==
    /\ pc = "waitQbt"
    /\ exitCode = -1
    /\ qBittorrentUser \in Users
    /\ up \in [Endpoints -> BOOLEAN]
    /\ jar = [n \in CookieNames |-> 0]
    /\ cookies = <<>>
    /\ qbtPort = 0
    /\ lastPort = 0
    /\ port = 0
    /\ nTicks = 0
    /\ argInterval \in args
    /\ interval = FlagDuration(argInterval)
    /\ period = 0
    /\ srvListenPort \in Ports
    /\ external = FALSE
    /\ dialFails = 0
    /\ connected = <<>>
    /\ last = NoEv
    /\ seed = NoEv
    /\ sent = [k \in Kinds |-> 0]
    /\ sentAtExit = [k \in Kinds |-> 0]
    /\ loginCookies = <<>>
    /\ seen = {}
    /\ run = <<>>

\* The program started without arguments, as the image's entry point does
Init == Start({0})

\* The program started with any --interval, or none
FlagInit == Start(0..MaxInterval)

---------------------------------------------------------------------------
(* Environment *)

\* What the torrent client can answer to a request whose body the program reads
QbtResponses(okBodies, badBodies) ==
    {[net |-> "senderr", status |-> 0, body |-> NotJSON, setCookie |-> <<>>]}
    \cup {[net |-> n, status |-> StatusOK, body |-> b, setCookie |-> sc] :
              n \in {"ok", "readerr"}, b \in okBodies, sc \in SetCookieLists}
    \cup {[net |-> n, status |-> st, body |-> b, setCookie |-> sc] :
              n \in {"ok", "readerr"}, st \in Statuses \ {StatusOK},
              b \in badBodies, sc \in SetCookieLists}

\* What the gateway can answer; the program never reads the status
GatewayResponses ==
    {[net |-> "senderr", body |-> NotJSON]}
    \cup {[net |-> n, body |-> b] :
              n \in {"ok", "readerr"},
              b \in {NotJSON, JSONEmpty, JSONPort(UINT16_MAX + 1)}
                    \cup {JSONPort(p) : p \in Ports}}

\* What can happen to a setPreferences request: an answer (the setting is
\* changed exactly when the answer is 200), or no answer, with the request
\* applied or not.
UpdateResponses ==
    {[net |-> "senderr", status |-> 0, setCookie |-> <<>>, applied |-> a] :
        a \in BOOLEAN}
    \cup {[net |-> "ok", status |-> st, setCookie |-> sc, applied |-> (st = StatusOK)] :
              st \in Statuses, sc \in SetCookieLists}

\* An endpoint starts or stops accepting connections. Reachability is read
\* only by waitForConnUp, so it is left alone once both waits are over.
EnvToggle(e) ==
    /\ pc \in {"waitQbt", "waitGluetun"}
    /\ up' = [up EXCEPT ![e] = ~@]
    /\ UNCHANGED <<prog, timer, qBittorrentUser, srvListenPort, external, hist>>

\* Somebody else changes the torrent client's listen port
ExternalSetPort ==
    /\ pc # "exited"
    /\ \E p \in Ports \ {srvListenPort} : srvListenPort' = p
    /\ external' = TRUE
    /\ UNCHANGED <<prog, timer, qBittorrentUser, up, hist>>

---------------------------------------------------------------------------
(* waitForConnUp *)

\* if err == nil { break }
DialBreaks_Always(err) == TRUE

DialBreaks_OnError(err) == err

DialBreaks_Never(err) == FALSE

DialBreaks(err) == ~err

WaitForConnUp(e, here, next) ==
    /\ pc = here
    /\ LET err == ~up[e] IN
        IF DialBreaks(err)
        THEN /\ pc' = next
             /\ connected' = IF err THEN connected ELSE Append(connected, e)
             /\ dialFails' = 0
        ELSE /\ dialFails < MaxDialFails
             /\ dialFails' = dialFails + 1
             /\ UNCHANGED <<pc, connected>>
    /\ UNCHANGED <<exitCode, jar, cookies, qbtPort, lastPort, port, nTicks,
                   qBittorrentUser, up, srvListenPort, external,
                   last, seed, sent, sentAtExit, loginCookies, seen, run>>
    /\ UNCHANGED timer

WaitQbt == WaitForConnUp("qbt", "waitQbt", "waitGluetun")

WaitGluetun == WaitForConnUp("gluetun", "waitGluetun", "auth")

---------------------------------------------------------------------------
(* Authentication *)

\* if qBittorrentUser != ""
NeedsLogin_Always(user) == TRUE

NeedsLogin(user) == user # ""

\* qBittorrentLogin's error: PostForm failed, ReadAll failed, or status != 200
LoginErr_NoStatusCheck(r) == r.net # "ok"

LoginErr(r) == r.net # "ok" \/ r.status # StatusOK

SkipLogin ==
    /\ pc = "auth"
    /\ ~NeedsLogin(qBittorrentUser)
    /\ pc' = "seed"
    /\ UNCHANGED <<exitCode, jar, cookies, qbtPort, lastPort, port, nTicks,
                   qBittorrentUser, up, srvListenPort, external, hist>>
    /\ UNCHANGED timer

\* The history of one request to the torrent client
Issue(ev) ==
    /\ last' = ev
    /\ sent' = [sent EXCEPT ![ev.kind] = @ + 1]
    /\ seen' = IF ev.kind # "fetch" /\ ev.net # "senderr"
               THEN seen \cup Range(ev.setCookie) ELSE seen

QBittorrentLogin ==
    /\ pc = "auth"
    /\ NeedsLogin(qBittorrentUser)
    /\ \E r \in QbtResponses({JSONEmpty}, {NotJSON}) :
        /\ Issue(Ev("login", <<>>, JarCookies(jar), WireCookies(<<>>, jar), 0,
                    r.net, r.status, r.body, r.setCookie, 0))
        /\ jar' = IF r.net = "senderr" THEN jar ELSE JarSet(jar, r.setCookie)
        /\ IF LoginErr(r)
           THEN Fatal /\ UNCHANGED <<cookies, loginCookies>>
           ELSE /\ cookies' = r.setCookie
                /\ loginCookies' = r.setCookie
                /\ pc' = "seed"
                /\ UNCHANGED <<exitCode, sentAtExit>>
    /\ UNCHANGED <<qbtPort, lastPort, port, nTicks, qBittorrentUser, up,
                   srvListenPort, external, dialFails, connected, seed, run>>
    /\ UNCHANGED timer

---------------------------------------------------------------------------
(* Seeding *)

\* getQBTSettings: the status is not looked at, the body is decoded
GetQBTSettings_ZeroValue(r) ==
    [err |-> r.net # "ok" \/ Unmarshal(r.body).err, val |-> 0]

GetQBTSettings(r) ==
    IF r.net # "ok" THEN [err |-> TRUE, val |-> 0] ELSE Unmarshal(r.body)

SeedState ==
    /\ pc = "seed"
    /\ \E r \in QbtResponses({JSONPort(srvListenPort)}, {NotJSON, JSONEmpty}) :
        LET settings == GetQBTSettings(r)
            ev == Ev("prefs", cookies, JarCookies(jar), WireCookies(cookies, jar), 0,
                     r.net, r.status, r.body, r.setCookie, 0)
        IN
        /\ Issue(ev)
        /\ seed' = ev
        /\ jar' = IF r.net = "senderr" THEN jar ELSE JarSet(jar, r.setCookie)
        /\ IF settings.err
           THEN Fatal /\ UNCHANGED qbtPort
           ELSE /\ qbtPort' = settings.val
                /\ pc' = "firstFetch"
                /\ UNCHANGED <<exitCode, sentAtExit>>
    /\ UNCHANGED <<cookies, lastPort, port, nTicks, qBittorrentUser, up,
                   srvListenPort, external, dialFails, connected, loginCookies, run>>
    /\ UNCHANGED timer

---------------------------------------------------------------------------
(* Polling *)

\* getGluetunForwardedPort: http.Get (no jar), ReadAll, json.Unmarshal
GetGluetunForwardedPort_SwallowsErr(r) ==
    [err |-> FALSE, val |-> IF r.net = "ok" THEN Unmarshal(r.body).val ELSE 0]

GetGluetunForwardedPort(r) ==
    IF r.net # "ok" THEN [err |-> TRUE, val |-> 0] ELSE Unmarshal(r.body)

\* if port != qbtPort && port != 0
\* (the earlier revision tested lastPort != port alone)
ShouldUpdate_NoZeroCheck(p, applied) == p # applied

ShouldUpdate_Or(p, applied) == p # applied \/ p # 0

ShouldUpdate_ZeroGuardOnApplied(p, applied) == p # applied /\ applied # 0

ShouldUpdate_VsLastPort(p, applied) == p # lastPort /\ p # 0

ShouldUpdate(p, applied) == p # applied /\ p # 0

\* qbtPort after handleChangedPort returned: qbtPort = port is reached only
\* when log.Fatal was not (the earlier revision assigned before the call)
AppliedAfter_SetBeforeCall(err, old, new) == new

AppliedAfter_NeverSet(err, old, new) == old

AppliedAfter(err, old, new) == IF err THEN old ELSE new

FetchEv(r, tick) ==
    Ev("fetch", <<>>, <<>>, <<>>, 0, r.net, 0, r.body, <<>>, tick)

FirstFetch ==
    /\ pc = "firstFetch"
    /\ \E r \in GatewayResponses :
        LET res == GetGluetunForwardedPort(r) IN
        /\ Issue(FetchEv(r, 0))
        /\ IF res.err
           THEN Fatal /\ UNCHANGED <<lastPort, period>>
           ELSE /\ lastPort' = res.val
                /\ period' = interval
                /\ pc' = "polling"
                /\ UNCHANGED <<exitCode, sentAtExit>>
    /\ UNCHANGED <<jar, cookies, qbtPort, port, nTicks, qBittorrentUser, up,
                   srvListenPort, external, dialFails, connected, seed,
                   loginCookies, run>>
    /\ UNCHANGED <<argInterval, interval>>

\* The record of a tick whose fetch returned value v (prev: the value the
\* tick before fetched, -1 for the first tick)
TickRec(v) ==
    [tick |-> nTicks + 1, fetched |-> v, applied |-> qbtPort,
     updated |-> FALSE, failed |-> FALSE,
     prev |-> IF run = <<>> THEN -1 ELSE run[Len(run)].fetched]

TickFetch ==
    /\ pc = "polling"
    /\ nTicks < MaxTicks
    /\ nTicks' = nTicks + 1
    /\ \E r \in GatewayResponses :
        LET res == GetGluetunForwardedPort(r) IN
        /\ Issue(FetchEv(r, nTicks + 1))
        /\ IF res.err
           THEN Fatal /\ UNCHANGED <<port, lastPort, run>>
           ELSE /\ port' = res.val
                /\ lastPort' = IF lastPort # res.val THEN res.val ELSE lastPort
                /\ run' = IF run # <<>> /\ run[Len(run)].fetched = res.val
                          THEN Append(run, TickRec(res.val))
                          ELSE <<TickRec(res.val)>>
                /\ pc' = IF ShouldUpdate(res.val, qbtPort) THEN "update" ELSE "polling"
                /\ UNCHANGED <<exitCode, sentAtExit>>
    /\ UNCHANGED <<jar, cookies, qbtPort, qBittorrentUser, up, srvListenPort,
                   external, dialFails, connected, seed, loginCookies>>
    /\ UNCHANGED timer

\* json.Marshal(&qBittorrentSettings{ListenPort: port}), sent as json=...
SettingsBody_ZeroValue(p) == JSONPort(0)

SettingsBody(p) == JSONPort(p)

\* handleChangedPort's error: client.Do failed or status != 200
HandleChangedPortErr(r) == r.net # "ok" \/ r.status # StatusOK

HandleChangedPort ==
    /\ pc = "update"
    /\ \E r \in UpdateResponses :
        LET err == HandleChangedPortErr(r) IN
        /\ Issue(Ev("update", cookies, JarCookies(jar),
                    WireCookies(cookies, jar), SettingsBody(port).port,
                    r.net, r.status, NotJSON, r.setCookie, nTicks))
        /\ jar' = IF r.net = "senderr" THEN jar ELSE JarSet(jar, r.setCookie)
        /\ srvListenPort' = IF r.applied THEN SettingsBody(port).port
                            ELSE srvListenPort
        /\ run' = [run EXCEPT ![Len(run)] =
                       [@ EXCEPT !.updated = TRUE, !.failed = err]]
        /\ qbtPort' = AppliedAfter(err, qbtPort, port)
        /\ IF err
           THEN Fatal
           ELSE /\ pc' = "polling"
                /\ UNCHANGED <<exitCode, sentAtExit>>
    /\ UNCHANGED <<cookies, lastPort, port, nTicks, qBittorrentUser, up,
                   external, dialFails, connected, seed, loginCookies>>
    /\ UNCHANGED timer

---------------------------------------------------------------------------

Next ==
    \/ WaitQbt
    \/ WaitGluetun
    \/ SkipLogin
    \/ QBittorrentLogin
    \/ SeedState
    \/ FirstFetch
    \/ TickFetch
    \/ HandleChangedPort
    \/ \E e \in Endpoints : EnvToggle(e)
    \/ ExternalSetPort

Spec == Init /\ [][Next]_vars

\* main() up to the entry of the polling loop, under weak fairness of its
\* steps: the ticker of waitForConnUp keeps firing, a dial ends within its
\* 5 s timeout, and a request that was issued returns (with an answer or an
\* error). Nothing is assumed of the environment.
Startup ==
    \/ WaitQbt
    \/ WaitGluetun
    \/ SkipLogin
    \/ QBittorrentLogin
    \/ SeedState
    \/ FirstFetch

StartupNext ==
    \/ Startup
    \/ \E e \in Endpoints : EnvToggle(e)
    \/ ExternalSetPort

StartupSpec == Init /\ [][StartupNext]_vars /\ WF_vars(Startup)

\* main() up to the entry of the polling loop, for every command line
\* The ticker keeps firing and a call made in the loop body returns
LoopSpec == Init /\ [][Next]_vars /\ WF_vars(TickFetch) /\ WF_vars(HandleChangedPort)

FlagSpec == FlagInit /\ [][StartupNext]_vars

---------------------------------------------------------------------------
(* Properties *)

\* The latest tick whose fetch succeeded
Tick == run[Len(run)]

\* A request the response says has failed
BadStatus(ev) == ev.net # "ok" \/ ev.status # StatusOK
Undecodable(body) ==
    ~body.json \/ (body.hasPort /\ (body.port < 0 \/ body.port > UINT16_MAX))
FailedLogin(ev) == ev.kind = "login" /\ BadStatus(ev)
FailedUpdate(ev) == ev.kind = "update" /\ BadStatus(ev)
FailedFetch(ev) == ev.kind = "fetch" /\ (ev.net # "ok" \/ Undecodable(ev.body))
ToQbt(ev) == ev.kind \in {"prefs", "update"}
Requests == sent["login"] + sent["prefs"] + sent["fetch"] + sent["update"]
\* Tick i of run is over: its update, if it needs one, has been issued
TickOver(i) == i < Len(run) \/ pc # "update"

\* C1: a tick issues the update call if and only if the value its fetch
\* returned is non-zero and differs from the tracked applied port (qbtPort)
\* the loop held when the fetch returned; the call it issues carries that value.
C1_UpdateIffChanged ==
    /\ \A i \in 1..Len(run) :
          LET changed == run[i].fetched # 0 /\ run[i].fetched # run[i].applied IN
          /\ run[i].updated => changed
          /\ (changed /\ TickOver(i)) => run[i].updated
    /\ pc = "update" =>
          run # <<>> /\ ~Tick.updated /\ Tick.fetched # 0 /\ Tick.fetched # Tick.applied
    /\ last.kind = "update" =>
          run # <<>> /\ Tick.updated /\ last.tick = Tick.tick /\ last.port = Tick.fetched

C1_Witness ==
    /\ pc = "polling"
    /\ nTicks >= 2
    /\ last.kind = "update"
    /\ ~BadStatus(last)
    /\ Tick.applied # 0

\* C2: no update call carries listen_port = 0, whatever the applied port and
\* whatever the torrent client reported at startup.
C2_NeverWritesZero ==
    /\ last.kind = "update" => last.port # 0
    /\ pc = "update" => port # 0
    /\ \A i \in 1..Len(run) : run[i].fetched = 0 => ~run[i].updated

C2_Witness ==
    /\ pc = "polling"
    /\ run # <<>>
    /\ Tick.fetched = 0
    /\ Tick.applied # 0
    /\ sent["update"] >= 1

\* C3: in a run of k >= 2 consecutive ticks whose fetches all returned the
\* same non-zero value v, exactly one update call is issued if v differed from
\* the applied port at the start of the run, and none otherwise.
C3_OneUpdatePerRun ==
    \A i \in 1..Len(run) : \A j \in 1..Len(run) :
        (i < j /\ run[i].fetched # 0 /\ TickOver(j)) =>
            Cardinality({k \in i..j : run[k].updated})
                = IF run[i].applied # run[i].fetched THEN 1 ELSE 0

C3_Witness ==
    /\ pc = "polling"
    /\ Len(run) >= 3
    /\ run[1].fetched # 0
    /\ run[1].updated

\* C4: when the update call fails (no answer, or an answer other than 200)
\* the process has terminated and qbtPort holds the value it had before the
\* call; qbtPort takes the new port only when the call has succeeded.
C4_AppliedOnlyAfterSuccess ==
    /\ FailedUpdate(last) =>
          /\ pc = "exited"
          /\ exitCode = 1
          /\ qbtPort = Tick.applied
          /\ qbtPort # last.port
    /\ pc = "update" => qbtPort = Tick.applied
    /\ (last.kind = "update" /\ ~BadStatus(last)) => qbtPort = last.port

C4_Witness ==
    /\ FailedUpdate(last)
    /\ last.status = 500
    /\ nTicks >= 2

\* The login call has been made and has succeeded
LoggedIn == sent["login"] >= 1 /\ ~FailedLogin(last)

C7_StartupSeeding ==
    (pc = "polling" /\ nTicks = 0) =>
        /\ sent["prefs"] = 1
        /\ sent["update"] = 0
        /\ seed.kind = "prefs"
        /\ seed.net = "ok"
        /\ seed.body.json
        /\ qbtPort = IF seed.body.hasPort THEN seed.body.port ELSE 0
        /\ run = <<>>

C7_Witness ==
    /\ pc = "polling"
    /\ nTicks = 0
    /\ seed.status = StatusOK
    /\ qbtPort # 0
    /\ qbtPort # lastPort

\* C8: a failed login (no answer, unreadable answer, or an answer other than
\* 200) terminates the process before the loop, with no preferences read, no
\* forwarded-port fetch and no update call issued, then or later.
C8_LoginFailureIsFatal ==
    /\ FailedLogin(last) =>
          /\ pc = "exited"
          /\ exitCode = 1
          /\ sent["prefs"] = 0 /\ sent["fetch"] = 0 /\ sent["update"] = 0
          /\ nTicks = 0
    /\ pc = "exited" => sent = sentAtExit

C8_Witness ==
    /\ FailedLogin(last)
    /\ last.net = "ok"
    /\ last.status = 403
    /\ pc = "exited"

\* C9: a failed forwarded-port fetch (no answer, unreadable or undecodable
\* body), at startup or in a tick, terminates the process with exit code 1;
\* nothing is issued after it, and the process never exits with code 0.
C9_FetchFailureIsFatal ==
    /\ FailedFetch(last) =>
          /\ pc = "exited"
          /\ exitCode = 1
          /\ sent = sentAtExit
          /\ sent["fetch"] = last.tick + 1
    /\ pc = "exited" => sent = sentAtExit
    /\ exitCode # 0
    /\ (pc = "exited") = (exitCode # -1)

C9_Witness ==
    /\ FailedFetch(last)
    /\ last.net = "ok"
    /\ last.tick >= 2
    /\ pc = "exited"

\* C10: readiness wait (torrent client, then gateway), authentication,
\* seeding, polling happen in this order: no request before both dials have
\* succeeded, no preferences read before the login (when one is needed), no
\* fetch and no update before the preferences read.
C10_StartupOrder ==
    /\ pc = "waitQbt" => connected = <<>>
    /\ pc = "waitGluetun" => connected = <<"qbt">>
    /\ pc \notin {"waitQbt", "waitGluetun"} => connected = <<"qbt", "gluetun">>
    /\ Requests > 0 => connected = <<"qbt", "gluetun">>
    /\ pc \in {"waitQbt", "waitGluetun", "auth"} => Requests = 0
    /\ sent["prefs"] > 0 => sent["login"] = IF qBittorrentUser = "" THEN 0 ELSE 1
    /\ pc = "seed" => sent["prefs"] = 0 /\ sent["fetch"] = 0 /\ sent["update"] = 0
    /\ (sent["fetch"] > 0 \/ sent["update"] > 0 \/ pc = "update") =>
          sent["prefs"] = 1 /\ seed.kind = "prefs" /\ ~Undecodable(seed.body)
    /\ sent["update"] > 0 => sent["fetch"] >= 2

C10_Witness ==
    /\ sent["update"] > 0
    /\ sent["login"] = 1
    /\ connected = <<"qbt", "gluetun">>
    /\ ~up["qbt"]

\* C11: a readiness wait is left only by a dial that succeeded, and a failed
\* dial leaves the program in the same wait, running.
C11_WaitReturnsOnlyOnSuccess ==
    [][/\ (pc = "waitQbt" /\ pc' # "waitQbt") =>
             up["qbt"] /\ pc' = "waitGluetun" /\ connected' = <<"qbt">>
       /\ (pc = "waitGluetun" /\ pc' # "waitGluetun") =>
             up["gluetun"] /\ pc' = "auth" /\ connected' = <<"qbt", "gluetun">>
       /\ dialFails' > dialFails =>
             /\ pc' = pc /\ pc \in {"waitQbt", "waitGluetun"}
             /\ exitCode' = -1
             /\ ~up[IF pc = "waitQbt" THEN "qbt" ELSE "gluetun"]
             /\ connected' = connected
       /\ (pc \in {"waitQbt", "waitGluetun"}) => exitCode' = -1
      ]_vars

C11_Witness ==
    /\ pc = "waitGluetun"
    /\ dialFails >= 2
    /\ exitCode = -1
    /\ connected = <<"qbt">>

\* Requests whose failure ends the process before the polling loop
FailedSeed(ev) == ev.kind = "prefs" /\ (ev.net # "ok" \/ Undecodable(ev.body))
FailedAtStartup ==
    /\ pc = "exited"
    /\ nTicks = 0
    /\ FailedLogin(last) \/ FailedSeed(last) \/ FailedFetch(last)
BothUp == up["qbt"] /\ up["gluetun"]

\* C12 as stated: an endpoint that from some time on accepts connections has
\* its readiness wait return, and once both are up the program eventually
\* reaches the polling state.
C12_Original ==
    /\ (<>[]up["qbt"]) => <>(pc # "waitQbt")
    /\ (<>[]up["gluetun"]) => ((pc = "waitGluetun") ~> (pc # "waitGluetun"))
    /\ (<>[]BothUp) => <>(pc = "polling")

\* C12 amended: an endpoint that from some time on accepts connections has
\* its readiness wait return, and once both are up the program eventually
\* leaves the readiness phase; it then reaches the polling state unless the
\* login, the preferences read or the first fetch fails, which ends the process.
C12_ReadinessLiveness ==
    /\ (<>[]up["qbt"]) => <>(pc # "waitQbt")
    /\ (<>[]up["gluetun"]) => ((pc = "waitGluetun") ~> (pc # "waitGluetun"))
    /\ (<>[]BothUp) => <>(pc = "polling" \/ FailedAtStartup)

C12_Witness ==
    /\ pc = "polling"
    /\ BothUp
    /\ nTicks = 0
    /\ sent["login"] = 1

\* C13: the period of the polling ticker is the duration given with
\* --interval, and the default of 1 second when the flag is not given.
C13_PeriodIsFlag ==
    period # 0 =>
        period = IF argInterval = 0 THEN DefaultInterval ELSE argInterval

\* A step that is a tick whose fetch returned value v
TickObserves(v) == nTicks' = nTicks + 1 /\ pc' # "exited" /\ port' = v

\* C14: a tick that observes 0 changes neither qbtPort nor the torrent
\* client's listen port and issues no update; and the tick after it, when it
\* observes the value that was applied before, issues no update either.
C14_ZeroTickChangesNothing ==
    [][/\ TickObserves(0) =>
             /\ pc' = "polling"
             /\ qbtPort' = qbtPort
             /\ srvListenPort' = srvListenPort
             /\ sent'["update"] = sent["update"]
       /\ (run # <<>> /\ Tick.fetched = 0 /\ TickObserves(Tick.applied)) =>
             /\ pc' = "polling"
             /\ qbtPort' = Tick.applied
             /\ srvListenPort' = srvListenPort
             /\ sent'["update"] = sent["update"]
      ]_vars

C14_Witness ==
    /\ pc = "polling"
    /\ run # <<>>
    /\ Tick.prev = 0
    /\ Tick.fetched # 0
    /\ Tick.fetched = Tick.applied
    /\ ~Tick.updated
    /\ sent["update"] >= 1

\* The value a response body decodes to
Decoded(body) == IF body.hasPort THEN body.port ELSE 0

\* C15: a tick issues one fetch, and at most one update; the update follows
\* the successful fetch of the same tick with nothing in between and carries
\* the value that fetch returned; a tick starts only when the tick before
\* has got back the answer to its last request.
C15_OneFetchThenUpdate ==
    [][/\ nTicks' # nTicks =>
             /\ nTicks' = nTicks + 1
             /\ pc = "polling"
             /\ last.kind \in {"fetch", "update"}
             /\ sent'["fetch"] = sent["fetch"] + 1
             /\ sent["fetch"] = nTicks + 1
             /\ sent'["update"] = sent["update"]
             /\ last'.kind = "fetch" /\ last'.tick = nTicks'
       /\ (sent'["fetch"] # sent["fetch"] /\ sent["fetch"] > 0) => nTicks' = nTicks + 1
       /\ sent'["update"] # sent["update"] =>
             /\ sent'["update"] = sent["update"] + 1
             /\ sent'["fetch"] = sent["fetch"]
             /\ nTicks' = nTicks
             /\ pc = "update" /\ pc' # "update"
             /\ last.kind = "fetch" /\ last.tick = nTicks
             /\ last.net = "ok" /\ ~Undecodable(last.body)
             /\ last'.kind = "update" /\ last'.tick = nTicks
             /\ last'.port = Decoded(last.body)
       /\ (pc = "update" /\ pc' # pc) => sent'["update"] = sent["update"] + 1
      ]_vars

C15_Witness ==
    /\ last.kind = "update"
    /\ last.tick >= 2
    /\ sent["update"] >= 2
    /\ sent["fetch"] = nTicks + 1
    /\ pc = "polling"

\* C16: as long as nobody else has changed the listen port, qbtPort equals
\* the torrent client's listen port whenever the loop waits for a tick.
C16_TrackedEqualsActual ==
    (~external /\ pc = "polling") => qbtPort = srvListenPort

\* C18: a preferences response with a status other than 200 terminates the
\* process before the first fetch; no tick runs and no update is sent.
C18_Non200SeedIsFatal ==
    (seed.kind = "prefs" /\ seed.net # "senderr" /\ seed.status # StatusOK) =>
        /\ pc = "exited"
        /\ exitCode = 1
        /\ sent["fetch"] = 0
        /\ sent["update"] = 0
        /\ nTicks = 0

\* The loop is alive and its latest tick observed v
Steady(v) == pc \in {"polling", "update"} /\ run # <<>> /\ Tick.fetched = v

\* C17 as stated: if from some tick on every fetch returns the same non-zero
\* v and every update succeeds, then at some point of that run the listen
\* port and qbtPort both equal v.
C17_Original ==
    \A v \in Ports \ {0} :
        (<>[]Steady(v)) => <>(Steady(v) /\ srvListenPort = v /\ qbtPort = v)

\* C17, amended: provided nobody else has changed the listen port, once a
\* tick that observed a non-zero v is over with its update (if any)
\* successful, the listen port and qbtPort equal v; and only the first tick
\* of a run of ticks observing v ever issues an update.
C17_ConvergesInOneTick ==
    /\ (~external /\ pc = "polling" /\ run # <<>> /\ Tick.fetched # 0 /\ ~Tick.failed) =>
          /\ qbtPort = Tick.fetched
          /\ srvListenPort = Tick.fetched
    /\ (pc = "polling" /\ run # <<>> /\ Tick.fetched # 0) =>
          /\ qbtPort = Tick.fetched
          /\ \A i \in 2..Len(run) : ~run[i].updated
    /\ (pc = "update" /\ Tick.fetched # 0) => Len(run) = 1

C17_Witness ==
    /\ ~external
    /\ pc = "polling"
    /\ Len(run) >= 2
    /\ run[1].updated /\ ~run[1].failed
    /\ run[1].applied # run[1].fetched
    /\ srvListenPort = Tick.fetched
    /\ qbtPort = Tick.fetched

====
